---- MODULE Spec2Model ----
(***************************************************************************)
(* A model of the two build-pipeline scripts of sample_jupyter_book:       *)
(*   scripts/update-header.py  (the header utility)                        *)
(*   scripts/send-metadata.py  (the dispatch utility)                      *)
(*                                                                         *)
(* Text is a sequence of atoms.  An atom is one character ("-", " ", "x",  *)
(* the newline "\n", a decimal digit, ...) or one literal fragment of a    *)
(* format string that holds a character which is neither white space nor   *)
(* "-" ("# ", "*Author: ", "November", "th"), so that a fragment can never *)
(* be part of a line that trims to the delimiter "---".                    *)
(***************************************************************************)
EXTENDS Integers, Sequences, FiniteSets, TLC

VARIABLES
    util,          \* what runs: "header", "dispatch", or "ordinal" (get_ordinal alone)
    pc,            \* position of the process in its script
    exitStatus,    \* process exit status, Running while the process runs
    error,         \* the exception that ended the process, "none" otherwise
    argv,          \* sys.argv
    configFile,    \* _config.yml on disk
    config,        \* the mapping returned by yaml.safe_load
    metadata,      \* the metadata record built by extract_metadata
    now,           \* datetime.now() of this process
    readme,        \* README.md on disk
    readme0,       \* README.md as it was when this process started
    run,           \* number of this invocation of the header utility
    prevOutput,    \* README.md text left by the previous invocation
    prevMetadata,  \* metadata record of the previous invocation
    env,           \* os.environ
    success,       \* value returned by send_repository_dispatch
    response,      \* outcome of request.urlopen
    posts,         \* the HTTP requests handed to request.urlopen, in order
    n,             \* argument of a call of get_ordinal
    ordinal        \* value that call returned

vars == <<util, pc, exitStatus, error, argv, configFile, config, metadata, now,
          readme, readme0, run, prevOutput, prevMetadata, env,
          success, response, posts, n, ordinal>>

(***************************************************************************)
(* Bounds of the model.                                                    *)
(***************************************************************************)
MaxLines == 3
MaxRuns == 2
MaxN == 125

\* exitStatus of a process that has not exited
Running == 0 - 1

(***************************************************************************)
(* Text.                                                                   *)
(***************************************************************************)
NL == "\n"

\* the characters str.strip() removes, among the atoms of the model
Whitespace == {" ", NL}

RECURSIVE lstrip(_)
lstrip(s) == IF s # <<>> /\ Head(s) \in Whitespace THEN lstrip(Tail(s)) ELSE s

RECURSIVE rstrip(_)
rstrip(s) ==
    IF s # <<>> /\ s[Len(s)] \in Whitespace
    THEN rstrip(SubSeq(s, 1, Len(s) - 1))
    ELSE s

strip(s) == rstrip(lstrip(s))

RECURSIVE Numeral(_)
\* f"{n}" of an integer n >= 0: its decimal digits, most significant first
Numeral(k) ==
    LET d == <<"0", "1", "2", "3", "4", "5", "6", "7", "8", "9">>[(k % 10) + 1]
    IN  IF k < 10 THEN <<d>> ELSE Numeral(k \div 10) \o <<d>>

\* index of the last atom of the first line of a non-empty text
LineEnd(text) ==
    IF \E i \in 1..Len(text) : text[i] = NL
    THEN CHOOSE i \in 1..Len(text) :
             text[i] = NL /\ \A j \in 1..(i - 1) : text[j] # NL
    ELSE Len(text)

RECURSIVE readlines(_)
\* f.readlines(): the lines of the text, each with its line end
readlines(text) ==
    IF text = <<>> THEN <<>>
    ELSE LET k == LineEnd(text)
         IN  <<SubSeq(text, 1, k)>> \o readlines(SubSeq(text, k + 1, Len(text)))

RECURSIVE writelines(_)
\* f.writelines(lines): the items one after the other, nothing added
writelines(lines) ==
    IF lines = <<>> THEN <<>> ELSE Head(lines) \o writelines(Tail(lines))

(***************************************************************************)
(* update-header.py                                                        *)
(***************************************************************************)
\* as get_ordinal, without the rule for the numbers ending in 10..20
get_ordinal_last_digit_only(k) ==
    Numeral(k) \o <<CASE k % 10 = 1 -> "st"
                      [] k % 10 = 2 -> "nd"
                      [] k % 10 = 3 -> "rd"
                      [] OTHER -> "th">>

get_ordinal(k) ==
    LET suffix == IF 10 <= k % 100 /\ k % 100 <= 20
                  THEN "th"
                  ELSE CASE k % 10 = 1 -> "st"
                         [] k % 10 = 2 -> "nd"
                         [] k % 10 = 3 -> "rd"
                         [] OTHER -> "th"
    IN  Numeral(k) \o <<suffix>>

\* date.strftime('%B')
MonthName(m) ==
    <<"January", "February", "March", "April", "May", "June", "July",
      "August", "September", "October", "November", "December">>[m]

format_date_with_ordinal(date) ==
    <<MonthName(date.month)>> \o <<" ">> \o get_ordinal(date.day)
        \o <<",", " ">> \o Numeral(date.year)

(***************************************************************************)
(* Python values of the model.  A mapping (a dict, os.environ) is the set  *)
(* of its keys with the value of each; the value of a key it does not hold *)
(* is kept at a fixed filler and never read.                               *)
(***************************************************************************)
\* dict.get(key, default)
Get(m, key, default) == IF key \in m.keys THEN m.val[key] ELSE default

NoText == <<>>
NoMetadata == [title |-> NoText, description |-> NoText, author |-> NoText,
               updated |-> NoText]
EmptyDict == [keys |-> {}, val |-> [tags |-> <<>>]]
NoConfig == [keys |-> {},
             val |-> [title |-> NoText, description |-> NoText,
                      author |-> NoText, project_metadata |-> EmptyDict]]

Delimiter == <<"-", "-", "-">>

\* the loop of update_readme: the number of lines before the first line
\* whose trimmed content is the delimiter, all of them when there is none
RECURSIVE lines_to_remove(_)
lines_to_remove(lines) ==
    IF lines = <<>> THEN 0
    ELSE IF strip(Head(lines)) = Delimiter THEN 0
    ELSE 1 + lines_to_remove(Tail(lines))

\* list.insert(0, item)
insert0(lines, item) == <<item>> \o lines

\* as update_readme_lines, the slice starting one line further: the delimiter
\* line goes with the block
update_readme_lines_drop_delimiter(lines, md) ==
    LET kept == SubSeq(lines, lines_to_remove(lines) + 2, Len(lines))
        l1 == insert0(kept, <<"*Last Updated: ">> \o md.updated \o <<"*", NL, NL>>)
        l2 == insert0(l1, <<"*Author: ">> \o md.author \o <<"*", NL, NL>>)
        l3 == insert0(l2, <<"**">> \o md.description \o <<"**", NL, NL>>)
        l4 == insert0(l3, <<"# ">> \o md.title \o <<NL, NL>>)
    IN  l4

\* update_readme between the read and the write: the list handed to writelines
update_readme_lines(lines, md) ==
    LET kept == SubSeq(lines, lines_to_remove(lines) + 1, Len(lines))
        l1 == insert0(kept, <<"*Last Updated: ">> \o md.updated \o <<"*", NL, NL>>)
        l2 == insert0(l1, <<"*Author: ">> \o md.author \o <<"*", NL, NL>>)
        l3 == insert0(l2, <<"**">> \o md.description \o <<"**", NL, NL>>)
        l4 == insert0(l3, <<"# ">> \o md.title \o <<NL, NL>>)
    IN  l4

\* the record extract_metadata of update-header.py returns
uh_extract_metadata(cfg, date) ==
    [title       |-> Get(cfg, "title", <<"No Title">>),
     description |-> Get(cfg, "description", <<"No Description">>),
     author      |-> Get(cfg, "author", <<"No Author">>),
     updated     |-> format_date_with_ordinal(date)]

(***************************************************************************)
(* The files and the clock the scripts read.                               *)
(***************************************************************************)
Dates == {[year |-> 2025, month |-> 11, day |-> 12],
          [year |-> 2025, month |-> 11, day |-> 21]}

DateLE(d, e) == <<d.year, d.month, d.day>> = <<e.year, e.month, e.day>>
                \/ d.year < e.year
                \/ (d.year = e.year /\ d.month < e.month)
                \/ (d.year = e.year /\ d.month = e.month /\ d.day < e.day)

\* values of title in _config.yml: one line, or a block scalar of two lines
TitleValues == {<<"T">>, <<"T", NL, "-", "-", "-">>}
DescriptionValues == {<<"D">>}
AuthorValues == {<<"A">>}
ProjectMetadataValues ==
    {EmptyDict,
     [keys |-> {"tags"}, val |-> [tags |-> <<>>]],
     [keys |-> {"tags"}, val |-> [tags |-> << <<"t">> >>]]}

\* the mappings a well-formed _config.yml holds, restricted to the keys in ks
\* (a document that parses to something other than a mapping is left out)
ConfigsOver(ks) ==
    {[keys |-> S,
      val  |-> [title |-> IF "title" \in S THEN t ELSE NoText,
                description |-> IF "description" \in S THEN d ELSE NoText,
                author |-> IF "author" \in S THEN a ELSE NoText,
                project_metadata |->
                    IF "project_metadata" \in S THEN pm ELSE EmptyDict]] :
        S \in SUBSET ks, t \in TitleValues, d \in DescriptionValues,
        a \in AuthorValues, pm \in ProjectMetadataValues}

AbsentConfigFile == [exists |-> FALSE, wellFormed |-> FALSE, doc |-> NoConfig]
MalformedConfigFile == [exists |-> TRUE, wellFormed |-> FALSE, doc |-> NoConfig]
ConfigFilesOver(ks) ==
    {AbsentConfigFile, MalformedConfigFile}
    \cup {[exists |-> TRUE, wellFormed |-> TRUE, doc |-> c] : c \in ConfigsOver(ks)}

LineChoices == {<<"-", "-", "-">>, <<" ", "-", "-", "-", " ">>, <<"x">>,
                <<"-", "-", "-", "x">>, <<>>}

\* the text of the lines ls, the last one with a line end or without
TextOf(ls, lastEnd) ==
    writelines([i \in 1..Len(ls) |->
                   IF i < Len(ls) \/ lastEnd THEN ls[i] \o <<NL>> ELSE ls[i]])

ReadmeTexts ==
    {TextOf(ls, e) : ls \in UNION {[1..m -> LineChoices] : m \in 0..MaxLines},
                     e \in BOOLEAN}

AbsentReadme == [exists |-> FALSE, text |-> NoText]
ReadmeFiles == {AbsentReadme} \cup {[exists |-> TRUE, text |-> t] : t \in ReadmeTexts}

DeployedUrl == "https://owner.github.io/book"
ScriptName == "send-metadata.py"

NoEnv == [keys |-> {}, val |-> [PORTFOLIO_REPO |-> "", PORTFOLIO_TOKEN |-> ""]]
\* no call of request.urlopen was made
NoResponse == [raised |-> "not called", status |-> 0]

(***************************************************************************)
(* update-header.py as a process: extract_metadata(), then update_readme.  *)
(***************************************************************************)
\* sys.exit(status), and the end of the script (status 0)
Exit(status, exc) ==
    /\ pc' = "exited"
    /\ exitStatus' = status
    /\ error' = exc

\* as UH_ExtractMetadata, a configuration that cannot be loaded being taken
\* as an empty mapping instead of ending the process
UH_ExtractMetadata_defaults_on_error ==
    /\ util = "header"
    /\ pc = "start"
    /\ LET doc == IF configFile.exists /\ configFile.wellFormed
                  THEN configFile.doc ELSE NoConfig
       IN  /\ config' = doc
           /\ metadata' = uh_extract_metadata(doc, now)
           /\ pc' = "extracted"
           /\ UNCHANGED <<exitStatus, error>>
    /\ UNCHANGED <<util, argv, configFile, now, readme, readme0, run,
                   prevOutput, prevMetadata, env, success, response, posts, n,
                   ordinal>>

\* extract_metadata() of update-header.py, lines 23-52
UH_ExtractMetadata ==
    /\ util = "header"
    /\ pc = "start"
    /\ IF ~configFile.exists
       THEN Exit(1, "FileNotFoundError") /\ UNCHANGED <<config, metadata>>
       ELSE IF ~configFile.wellFormed
       THEN Exit(1, "YAMLError") /\ UNCHANGED <<config, metadata>>
       ELSE /\ config' = configFile.doc
            /\ metadata' = uh_extract_metadata(configFile.doc, now)
            /\ pc' = "extracted"
            /\ UNCHANGED <<exitStatus, error>>
    /\ UNCHANGED <<util, argv, configFile, now, readme, readme0, run,
                   prevOutput, prevMetadata, env, success, response, posts, n,
                   ordinal>>

\* update_readme(metadata), lines 55-85, and the end of the script
UpdateReadme ==
    /\ util = "header"
    /\ pc = "extracted"
    /\ IF ~readme.exists
       THEN Exit(1, "FileNotFoundError") /\ UNCHANGED readme
       ELSE /\ readme' = [exists |-> TRUE,
                          text |-> writelines(
                              update_readme_lines(readlines(readme.text), metadata))]
            /\ Exit(0, "none")
    /\ UNCHANGED <<util, argv, configFile, config, metadata, now, readme0, run,
                   prevOutput, prevMetadata, env, success, response, posts, n,
                   ordinal>>

\* the header utility is run again, on the README.md the last run left
UH_RunAgain ==
    /\ util = "header"
    /\ pc = "exited"
    /\ exitStatus = 0
    /\ run < MaxRuns
    /\ run' = run + 1
    /\ pc' = "start"
    /\ exitStatus' = Running
    /\ error' = "none"
    /\ now' \in {d \in Dates : DateLE(now, d)}
    /\ readme0' = readme
    /\ prevOutput' = readme.text
    /\ prevMetadata' = metadata
    /\ config' = NoConfig
    /\ metadata' = NoMetadata
    /\ UNCHANGED <<util, argv, configFile, readme, env, success, response, posts,
                   n, ordinal>>

(***************************************************************************)
(* send-metadata.py                                                        *)
(***************************************************************************)
Raise(exc, filler) == [raised |-> exc, value |-> filler]
Return(v) == [raised |-> "none", value |-> v]

NoDispatchMetadata ==
    [title |-> NoText, description |-> NoText, author |-> NoText,
     tags |-> <<>>, url |-> "", updated |-> NoText]

\* the names the module binds at top level (imports and defs)
ModuleGlobals == {"yaml", "sys", "os", "json", "datetime", "request", "error",
                  "load_config", "extract_metadata",
                  "send_repository_dispatch", "main"}

\* def extract_metadata(config): its parameters, and the names bound in its
\* body before the dict of lines 49-56 is built
ExtractMetadataParams == <<"config">>
ExtractMetadataLocals == {"config", "title", "description", "author",
                          "logo_path", "project_meta", "tags", "current_date"}

\* a two-digit field of strftime (%m, %d)
Pad2(k) == IF k < 10 THEN <<"0">> \o Numeral(k) ELSE Numeral(k)

\* datetime.now().strftime("%Y-%m-%d")
strftime_Ymd(date) ==
    Numeral(date.year) \o <<"-">> \o Pad2(date.month) \o <<"-">> \o Pad2(date.day)

\* the body of extract_metadata(config), lines 36-56: the name deployed_url
\* of line 54 is looked up among the locals and the module's globals
sm_extract_metadata_body(cfg, date) ==
    LET title == Get(cfg, "title", <<"No Title">>)
        description == Get(cfg, "description", <<"No Description">>)
        author == Get(cfg, "author", <<"No Author">>)
        project_meta == Get(cfg, "project_metadata", EmptyDict)
        tags == Get(project_meta, "tags", <<>>)
        current_date == strftime_Ymd(date)
    IN  IF "deployed_url" \notin (ExtractMetadataLocals \cup ModuleGlobals)
        THEN Raise("NameError", NoDispatchMetadata)
        ELSE Return([title |-> title, description |-> description,
                     author |-> author, tags |-> tags, url |-> DeployedUrl,
                     updated |-> current_date])

\* a call extract_metadata(*args): Python binds the arguments to the
\* parameters before the body runs, and raises TypeError when they do not fit
sm_extract_metadata(args, date) ==
    IF Len(args) # Len(ExtractMetadataParams)
    THEN Raise("TypeError", NoDispatchMetadata)
    ELSE sm_extract_metadata_body(args[1], date)

\* os.environ.get(key): None when the variable is not set
EnvGet(environ, key) ==
    IF key \in environ.keys
    THEN [none |-> FALSE, s |-> environ.val[key]]
    ELSE [none |-> TRUE, s |-> ""]

\* `not v` of a value that is None or a string
Falsy(v) == v.none \/ v.s = ""

\* request.urlopen(req) given what the network does with the request: a
\* response object for a 2xx status, HTTPError for another status, URLError
\* when no response arrives
urlopen(req, net) ==
    IF net.kind = "unreachable"
    THEN [raised |-> "URLError", status |-> 0]
    ELSE IF 200 <= net.status /\ net.status <= 299
    THEN [raised |-> "none", status |-> net.status]
    ELSE [raised |-> "HTTPError", status |-> net.status]

NetworkOutcomes ==
    {[kind |-> "unreachable", status |-> 0]}
    \cup {[kind |-> "answer", status |-> st] : st \in {200, 204, 404, 422}}

Sent(ok, reqs, resp) == [result |-> ok, posts |-> reqs, response |-> resp]

\* as send_repository_dispatch, any response object counting as success
send_repository_dispatch_any2xx(md, environ, net) ==
    LET portfolio_repo == EnvGet(environ, "PORTFOLIO_REPO")
        portfolio_token == EnvGet(environ, "PORTFOLIO_TOKEN")
        req == [url |-> <<"https://api.github.com/repos/", portfolio_repo.s,
                          "/dispatches">>,
                method |-> "POST",
                authorization |-> <<"Bearer ", portfolio_token.s>>,
                event_type |-> "project-updated",
                client_payload |-> md]
        r == urlopen(req, net)
    IN  IF Falsy(portfolio_repo) \/ Falsy(portfolio_token)
        THEN Sent(FALSE, <<>>, NoResponse)
        ELSE Sent(r.raised = "none", <<req>>, r)

\* as send_repository_dispatch, without the test of the token
send_repository_dispatch_no_token_check(md, environ, net) ==
    LET portfolio_repo == EnvGet(environ, "PORTFOLIO_REPO")
        portfolio_token == EnvGet(environ, "PORTFOLIO_TOKEN")
        req == [url |-> <<"https://api.github.com/repos/", portfolio_repo.s,
                          "/dispatches">>,
                method |-> "POST",
                authorization |-> <<"Bearer ", portfolio_token.s>>,
                event_type |-> "project-updated",
                client_payload |-> md]
        r == urlopen(req, net)
    IN  IF Falsy(portfolio_repo)
        THEN Sent(FALSE, <<>>, NoResponse)
        ELSE Sent(r.raised = "none" /\ r.status = 204, <<req>>, r)

\* as send_repository_dispatch, a transport error being tried once more
send_repository_dispatch_retry(md, environ, net) ==
    LET portfolio_repo == EnvGet(environ, "PORTFOLIO_REPO")
        portfolio_token == EnvGet(environ, "PORTFOLIO_TOKEN")
        req == [url |-> <<"https://api.github.com/repos/", portfolio_repo.s,
                          "/dispatches">>,
                method |-> "POST",
                authorization |-> <<"Bearer ", portfolio_token.s>>,
                event_type |-> "project-updated",
                client_payload |-> md]
        r == urlopen(req, net)
    IN  IF Falsy(portfolio_repo) \/ Falsy(portfolio_token)
        THEN Sent(FALSE, <<>>, NoResponse)
        ELSE IF r.raised = "URLError"
        THEN Sent(FALSE, <<req, req>>, r)
        ELSE Sent(r.raised = "none" /\ r.status = 204, <<req>>, r)

\* send_repository_dispatch(metadata), lines 58-119: the value returned, the
\* requests handed to urlopen and the outcome of urlopen
send_repository_dispatch(md, environ, net) ==
    LET portfolio_repo == EnvGet(environ, "PORTFOLIO_REPO")
        portfolio_token == EnvGet(environ, "PORTFOLIO_TOKEN")
        req == [url |-> <<"https://api.github.com/repos/", portfolio_repo.s,
                          "/dispatches">>,
                method |-> "POST",
                authorization |-> <<"Bearer ", portfolio_token.s>>,
                event_type |-> "project-updated",
                client_payload |-> md]
        r == urlopen(req, net)
    IN  IF Falsy(portfolio_repo)
        THEN Sent(FALSE, <<>>, NoResponse)
        ELSE IF Falsy(portfolio_token)
        THEN Sent(FALSE, <<>>, NoResponse)
        ELSE IF r.raised = "none"
        THEN IF r.status = 204
             THEN Sent(TRUE, <<req>>, r)
             ELSE Sent(FALSE, <<req>>, r)
        ELSE IF r.raised = "HTTPError"
        THEN Sent(FALSE, <<req>>, r)
        ELSE Sent(FALSE, <<req>>, r)

\* as main_exit_status, a failed dispatch giving status 1
main_exit_status_reflects_dispatch(ok) == IF ok THEN 0 ELSE 1

\* the argument of sys.exit at line 158: 0 if success else 0
main_exit_status(ok) == IF ok THEN 0 ELSE 0

Envs ==
    {[keys |-> S,
      val  |-> [PORTFOLIO_REPO |-> IF "PORTFOLIO_REPO" \in S THEN repo ELSE "",
                PORTFOLIO_TOKEN |-> IF "PORTFOLIO_TOKEN" \in S THEN tok ELSE ""]] :
        S \in SUBSET {"PORTFOLIO_REPO", "PORTFOLIO_TOKEN"},
        repo \in {"", "owner/portfolio"}, tok \in {"", "ghp_token"}}

(***************************************************************************)
(* send-metadata.py as a process: main(), lines 121-158.                   *)
(***************************************************************************)
\* main, lines 123-127: the usage check
Main_Args ==
    /\ util = "dispatch"
    /\ pc = "start"
    /\ IF Len(argv) < 2
       THEN Exit(1, "none")
       ELSE pc' = "load" /\ UNCHANGED <<exitStatus, error>>
    /\ UNCHANGED <<util, argv, configFile, config, metadata, now, readme, readme0, run,
                   prevOutput, prevMetadata, env, success, response, posts,
                   n, ordinal>>

\* load_config(), lines 22-32, called at line 131
LoadConfig ==
    /\ util = "dispatch"
    /\ pc = "load"
    /\ IF ~configFile.exists
       THEN Exit(1, "FileNotFoundError") /\ UNCHANGED config
       ELSE IF ~configFile.wellFormed
       THEN Exit(1, "YAMLError") /\ UNCHANGED config
       ELSE /\ config' = configFile.doc
            /\ pc' = "extract"
            /\ UNCHANGED <<exitStatus, error>>
    /\ UNCHANGED <<util, argv, configFile, metadata, now, readme, readme0, run,
                   prevOutput, prevMetadata, env, success, response, posts,
                   n, ordinal>>

\* main, line 135: metadata = extract_metadata(config, deployed_url); an
\* exception nothing catches ends the process with a traceback and status 1
Main_Extract ==
    /\ util = "dispatch"
    /\ pc = "extract"
    /\ LET deployed_url == argv[2]
           r == sm_extract_metadata(<<config, deployed_url>>, now)
       IN  IF r.raised # "none"
           THEN Exit(1, r.raised) /\ UNCHANGED metadata
           ELSE /\ metadata' = r.value
                /\ pc' = "send"
                /\ UNCHANGED <<exitStatus, error>>
    /\ UNCHANGED <<util, argv, configFile, config, now, readme, readme0, run,
                   prevOutput, prevMetadata, env, success, response, posts,
                   n, ordinal>>

\* main, line 148: success = send_repository_dispatch(metadata)
SendRepositoryDispatch ==
    /\ util = "dispatch"
    /\ pc = "send"
    /\ \E net \in NetworkOutcomes :
          LET out == send_repository_dispatch(metadata, env, net)
          IN  /\ success' = out.result
              /\ posts' = posts \o out.posts
              /\ response' = out.response
    /\ pc' = "sent"
    /\ UNCHANGED <<util, exitStatus, error, argv, configFile, config, metadata,
                   now, readme, readme0, run, prevOutput,
                   prevMetadata, env, n, ordinal>>

\* main, lines 150-158: the note, then sys.exit
Main_Exit ==
    /\ util = "dispatch"
    /\ pc = "sent"
    /\ Exit(main_exit_status(success), "none")
    /\ UNCHANGED <<util, argv, configFile, config, metadata, now, readme, readme0, run,
                   prevOutput, prevMetadata, env, success, response, posts,
                   n, ordinal>>

\* a call get_ordinal(n)
GetOrdinal ==
    /\ util = "ordinal"
    /\ pc = "call"
    /\ ordinal' = get_ordinal(n)
    /\ pc' = "returned"
    /\ UNCHANGED <<util, exitStatus, error, argv, configFile, config, metadata,
                   now, readme, readme0, run, prevOutput,
                   prevMetadata, env, success, response, posts, n>>

(***************************************************************************)
(* Spec: either script run as a process, from its start.  The header       *)
(* utility may be run again on the README.md it wrote.  main() of          *)
(* send-metadata.py never gets past line 135 (the call raises TypeError),  *)
(* so the steps after it are no part of this next-state relation.          *)
(***************************************************************************)
Init ==
    /\ util \in {"header", "dispatch"}
    /\ pc = "start"
    /\ exitStatus = Running
    /\ error = "none"
    /\ argv \in IF util = "dispatch"
                THEN {<<ScriptName>>, <<ScriptName, DeployedUrl>>}
                ELSE {<<"update-header.py">>}
    /\ configFile \in IF util = "dispatch"
                      THEN ConfigFilesOver({"title", "description", "author",
                                            "project_metadata"})
                      ELSE ConfigFilesOver({"title", "description", "author"})
    /\ config = NoConfig
    /\ metadata = NoMetadata
    /\ now \in Dates
    /\ readme \in IF util = "header"
                  THEN ReadmeFiles
                  ELSE {AbsentReadme, [exists |-> TRUE, text |-> <<"x", NL>>]}
    /\ readme0 = readme
    /\ run = 1
    /\ prevOutput = NoText
    /\ prevMetadata = NoMetadata
    /\ env \in IF util = "dispatch" THEN Envs ELSE {NoEnv}
    /\ success = FALSE
    /\ response = NoResponse
    /\ posts = <<>>
    /\ n = 0
    /\ ordinal = NoText

Next ==
    \/ UH_ExtractMetadata
    \/ UpdateReadme
    \/ UH_RunAgain
    \/ Main_Args
    \/ LoadConfig
    \/ Main_Extract

Spec == Init /\ [][Next]_vars

(***************************************************************************)
(* SpecDispatch: the dispatch step of main (lines 146-158) entered with    *)
(* any metadata record, any environment and any answer of the network.     *)
(***************************************************************************)
InitDispatch ==
    /\ util = "dispatch"
    /\ pc = "send"
    /\ exitStatus = Running
    /\ error = "none"
    /\ argv = <<ScriptName, DeployedUrl>>
    /\ configFile \in {f \in ConfigFilesOver({"title", "description", "author",
                                              "project_metadata"}) : f.wellFormed}
    /\ config = configFile.doc
    /\ now \in Dates
    /\ metadata =
          [title |-> Get(config, "title", <<"No Title">>),
           description |-> Get(config, "description", <<"No Description">>),
           author |-> Get(config, "author", <<"No Author">>),
           tags |-> Get(Get(config, "project_metadata", EmptyDict), "tags", <<>>),
           url |-> DeployedUrl,
           updated |-> strftime_Ymd(now)]
    /\ readme = AbsentReadme
    /\ readme0 = readme
    /\ run = 1
    /\ prevOutput = NoText
    /\ prevMetadata = NoMetadata
    /\ env \in Envs
    /\ success = FALSE
    /\ response = NoResponse
    /\ posts = <<>>
    /\ n = 0
    /\ ordinal = NoText

NextDispatch ==
    \/ SendRepositoryDispatch
    \/ Main_Exit

SpecDispatch == InitDispatch /\ [][NextDispatch]_vars

(***************************************************************************)
(* SpecOrdinal: get_ordinal applied to every integer from 1 to MaxN.       *)
(***************************************************************************)
InitOrdinal ==
    /\ util = "ordinal"
    /\ pc = "call"
    /\ exitStatus = Running
    /\ error = "none"
    /\ argv = <<>>
    /\ configFile = AbsentConfigFile
    /\ config = NoConfig
    /\ metadata = NoMetadata
    /\ now \in Dates
    /\ readme = AbsentReadme
    /\ readme0 = readme
    /\ run = 1
    /\ prevOutput = NoText
    /\ prevMetadata = NoMetadata
    /\ env = NoEnv
    /\ success = FALSE
    /\ response = NoResponse
    /\ posts = <<>>
    /\ n \in 1..MaxN
    /\ ordinal = NoText

NextOrdinal == GetOrdinal

SpecOrdinal == InitOrdinal /\ [][NextOrdinal]_vars

(***************************************************************************)
(* The properties.                                                         *)
(***************************************************************************)
\* update_readme has rewritten README.md in this run of the header utility
Updated == util = "header" /\ pc = "exited" /\ exitStatus = 0

IsDelimiterLine(line) == strip(line) = <<"-", "-", "-">>

\* k is the index of the first delimiter line of the lines L
FirstDelimiterAt(L, k) ==
    /\ k \in 1..Len(L)
    /\ IsDelimiterLine(L[k])
    /\ \A j \in 1..(k - 1) : ~IsDelimiterLine(L[j])

HasDelimiterLine(text) ==
    \E k \in 1..Len(readlines(text)) : IsDelimiterLine(readlines(text)[k])

\* the four rendered lines, each followed by a blank line: title, bolded
\* description, author, updated date
RenderedHeader(md) ==
    <<"# ">> \o md.title \o <<NL, NL>>
    \o <<"**">> \o md.description \o <<"**", NL, NL>>
    \o <<"*Author: ">> \o md.author \o <<"*", NL, NL>>
    \o <<"*Last Updated: ">> \o md.updated \o <<"*", NL, NL>>

\* the text s without its first k atoms
Drop(s, k) == SubSeq(s, k + 1, Len(s))

OriginalLines == readlines(readme0.text)

\* C1: when the first line of README.md whose trimmed content is "---" is
\* line k, the file update_readme writes is the four rendered lines followed
\* by the original lines from line k on, unchanged and in order.
C1_DelimiterKept ==
    Updated =>
        \A k \in 1..Len(OriginalLines) :
            FirstDelimiterAt(OriginalLines, k) =>
                readme.text = RenderedHeader(metadata)
                    \o writelines(SubSeq(OriginalLines, k, Len(OriginalLines)))

\* a rewrite of a README.md with three or more lines before its first
\* delimiter line and a remainder after it
C1_Witness ==
    /\ Updated
    /\ \E k \in 4..(Len(OriginalLines) - 1) : FirstDelimiterAt(OriginalLines, k)

\* C2, as claimed: on a README.md with no delimiter line, the file written is
\* the four rendered lines followed by all the original lines.
C2_NoDelimiterKeepsAll ==
    (Updated /\ ~HasDelimiterLine(readme0.text)) =>
        readme.text = RenderedHeader(metadata) \o readme0.text

\* C3, as claimed: a second run on the file the first run wrote, with the
\* same title, description and author, gives the first run's file with at
\* most the updated-date line changed, and the same file for the same date.
C3_RoundTrip ==
    (Updated /\ run >= 2) =>
        /\ metadata.title = prevMetadata.title
        /\ metadata.description = prevMetadata.description
        /\ metadata.author = prevMetadata.author
        /\ readme.text = RenderedHeader(metadata)
               \o Drop(prevOutput, Len(RenderedHeader(prevMetadata)))
        /\ metadata.updated = prevMetadata.updated => readme.text = prevOutput

\* Beside the round trip: it does hold for every metadata record whose
\* rendered lines hold no line whose trimmed content is "---".
RoundTrip_NoDelimiterInHeader ==
    (Updated /\ run >= 2 /\ ~HasDelimiterLine(RenderedHeader(metadata))) =>
        /\ metadata.title = prevMetadata.title
        /\ metadata.description = prevMetadata.description
        /\ metadata.author = prevMetadata.author
        /\ readme.text = RenderedHeader(metadata)
               \o Drop(prevOutput, Len(RenderedHeader(prevMetadata)))
        /\ metadata.updated = prevMetadata.updated => readme.text = prevOutput

\* a second run, on another day, on a file that holds more than the header
RoundTrip_Witness ==
    /\ Updated
    /\ run >= 2
    /\ ~HasDelimiterLine(RenderedHeader(metadata))
    /\ metadata.updated # prevMetadata.updated
    /\ Len(prevOutput) > Len(RenderedHeader(prevMetadata))

Present(environ, key) == ~Falsy(EnvGet(environ, key))
BothPresent == Present(env, "PORTFOLIO_REPO") /\ Present(env, "PORTFOLIO_TOKEN")
DispatchReturned == util = "dispatch" /\ pc \in {"sent", "exited"}

\* C4: with both configuration values present, send_repository_dispatch
\* returns True exactly when urlopen gave a response of status 204; any other
\* status and a transport error give False, and no exception leaves it.
C4_SuccessIffStatus204 ==
    (DispatchReturned /\ BothPresent) =>
        /\ success <=> (response.raised = "none" /\ response.status = 204)
        /\ response.raised \in {"none", "HTTPError", "URLError"}
        /\ error = "none"

\* a call that got the 204 and returned True
C4_Witness ==
    /\ DispatchReturned
    /\ BothPresent
    /\ response.raised = "none"
    /\ response.status = 204
    /\ success

\* C5: when PORTFOLIO_REPO or the token is absent, send_repository_dispatch
\* returns False and no HTTP request is attempted.
C5_AbsentCredentialNoRequest ==
    (DispatchReturned /\ ~BothPresent) => (~success /\ posts = <<>>)

\* a call with the repository set and the token not set
C5_Witness ==
    /\ DispatchReturned
    /\ Present(env, "PORTFOLIO_REPO")
    /\ "PORTFOLIO_TOKEN" \notin env.keys
    /\ ~success

ConfigLoads == configFile.exists /\ configFile.wellFormed

\* the extraction step of this process has been taken
ExtractionInvoked ==
    /\ ConfigLoads
    /\ \/ util = "header" /\ pc \in {"extracted", "exited"}
       \/ util = "dispatch" /\ Len(argv) >= 2 /\ pc \in {"send", "exited"}

\* the value the claim gives a field: the configured one, or the default
Configured(m, key, default) == IF key \in m.keys THEN m.val[key] ELSE default

\* C7, as claimed: in both utilities the extraction, as the utility invokes
\* it, ends without error and returns the configured value or the documented
\* default of each field, and in the dispatch utility the deployed URL.
C7_ExtractionSubstitutesDefaults ==
    ExtractionInvoked =>
        /\ error \notin {"TypeError", "NameError"}
        /\ metadata.title = Configured(configFile.doc, "title", <<"No Title">>)
        /\ metadata.description
               = Configured(configFile.doc, "description", <<"No Description">>)
        /\ metadata.author = Configured(configFile.doc, "author", <<"No Author">>)
        /\ util = "dispatch" =>
               /\ metadata.url = argv[2]
               /\ metadata.tags
                      = IF "project_metadata" \in configFile.doc.keys
                           /\ "tags" \in configFile.doc.val.project_metadata.keys
                        THEN configFile.doc.val.project_metadata.val.tags
                        ELSE <<>>

\* C8: for n >= 1, get_ordinal(n) is the decimal numeral of n followed by
\* "th" when n mod 100 is in 10..20, and otherwise by "st", "nd", "rd" for a
\* last digit 1, 2, 3 and "th" for any other; 1st, 2nd, 3rd, 11th, 12th,
\* 21st, 101st.
C8_OrdinalSuffix ==
    (util = "ordinal" /\ pc = "returned") =>
        /\ Len(ordinal) >= 2
        /\ SubSeq(ordinal, 1, Len(ordinal) - 1) = Numeral(n)
        /\ (n % 100) \in 10..20 => ordinal[Len(ordinal)] = "th"
        /\ (n % 100) \notin 10..20 =>
               /\ n % 10 = 1 => ordinal[Len(ordinal)] = "st"
               /\ n % 10 = 2 => ordinal[Len(ordinal)] = "nd"
               /\ n % 10 = 3 => ordinal[Len(ordinal)] = "rd"
               /\ (n % 10) \notin {1, 2, 3} => ordinal[Len(ordinal)] = "th"
        /\ n = 1 => ordinal = <<"1", "st">>
        /\ n = 2 => ordinal = <<"2", "nd">>
        /\ n = 3 => ordinal = <<"3", "rd">>
        /\ n = 11 => ordinal = <<"1", "1", "th">>
        /\ n = 12 => ordinal = <<"1", "2", "th">>
        /\ n = 21 => ordinal = <<"2", "1", "st">>
        /\ n = 101 => ordinal = <<"1", "0", "1", "st">>

\* get_ordinal has returned for a number past 100 whose last two digits are
\* in 10..20 and whose last digit is 1, 2 or 3
C8_Witness ==
    /\ util = "ordinal"
    /\ pc = "returned"
    /\ n > 100
    /\ (n % 100) \in 10..20
    /\ (n % 10) \in {1, 2, 3}
    /\ ordinal[Len(ordinal)] = "th"

\* this process meets a fatal error: no configuration file, one that does
\* not parse, or (header utility) no README.md
FatalError ==
    \/ ~configFile.exists
    \/ ~configFile.wellFormed
    \/ util = "header" /\ ~readme0.exists

\* C9: a process that meets a fatal error ends with status 1 only, attempts
\* no HTTP request, and neither creates nor modifies README.md.
C9_FatalErrorNoSideEffect ==
    (util \in {"header", "dispatch"} /\ FatalError) =>
        /\ pc = "exited" => exitStatus = 1
        /\ exitStatus \in {Running, 1}
        /\ posts = <<>>
        /\ readme = readme0

\* the header utility has ended on a configuration that does not parse,
\* beside a README.md that exists
C9_Witness ==
    /\ util = "header"
    /\ pc = "exited"
    /\ configFile.exists
    /\ ~configFile.wellFormed
    /\ readme0.exists
    /\ exitStatus = 1

\* C10: with both configuration values present, one call of
\* send_repository_dispatch attempts exactly one HTTP POST, whatever the
\* outcome.
C10_ExactlyOnePost ==
    (DispatchReturned /\ BothPresent) =>
        /\ Len(posts) = 1
        /\ posts[1].method = "POST"

\* a call that met a transport error
C10_Witness ==
    /\ DispatchReturned
    /\ BothPresent
    /\ response.raised = "URLError"
    /\ Len(posts) = 1

====
